---- MODULE Spec2Model ----
(***************************************************************************)
(* Model of src/main.py: DatasetReader, CryptAlgo and RandomCode.          *)
(*                                                                         *)
(* A str is a sequence of one-character strings, so that str.split and     *)
(* str.join are computed character by character.  A dict is a function     *)
(* whose DOMAIN is the set of keys.  A Counter is the sequence of its      *)
(* (word, count) items in insertion order, the order Counter.most_common   *)
(* depends on.  None is the string "None".                                 *)
(***************************************************************************)
EXTENDS Naturals, Sequences, FiniteSets

VARIABLES text_data, inst, files, last

vars == <<text_data, inst, files, last>>

(***************************************************************************)
(* Bounds of the model.                                                    *)
(***************************************************************************)
\* Longest dataset file, in characters, of the vocabulary specification.
MaxFileLen == 6
\* Longest dataset file of the specifications that also encrypt and decrypt.
MaxSmallFileLen == 3
\* Longest sentence handed to encrypt or decrypt.
MaxTextLen == 4
\* Longest sentence of the specification of sentences of several words, and
\* the most words of its one-line datasets.
MaxSentenceLen == 7
MaxCorpusWords == 2
\* Most words of the one-line datasets of the ranking specification.
MaxRankWords == 4
\* RandomCode.MAX_VOCAB_SIZE (src/main.py:58) is 1000; the model runs the
\* class with the attribute set to 2 so that corpora with more distinct
\* tokens than the cap are explored.
MAX_VOCAB_SIZE == 2

Letters == {"a", "b"}
Space == " "
Newline == "\n"
None == "None"
Instances == {1, 2}
Paths == {"random_code.pk"}

\* Characters of a sentence, and of a dataset file.
TextChars == Letters \cup {Space}
FileChars == TextChars \cup {Newline}

SeqsUpTo(S, n) == UNION {[1..k -> S] : k \in 0..n}

Texts == SeqsUpTo(TextChars, MaxTextLen)
Sentences == SeqsUpTo(TextChars, MaxSentenceLen)

\* The words of the one-line datasets.
ShortWords == {<<"a">>, <<"b">>}
RankWords == {<<"a">>, <<"b">>, <<"a", "b">>, <<"b", "a">>}

(***************************************************************************)
(* str.split(), str.splitlines() and " ".join()                            *)
(***************************************************************************)
IsSpace(c) == c \in {Space, Newline}

\* sentence.split(): the maximal runs of non-whitespace characters.
RECURSIVE SplitFrom(_, _, _)
SplitFrom(s, i, cur) ==
    IF i > Len(s)
    THEN IF cur = <<>> THEN <<>> ELSE <<cur>>
    ELSE IF IsSpace(s[i])
         THEN IF cur = <<>>
              THEN SplitFrom(s, i + 1, <<>>)
              ELSE <<cur>> \o SplitFrom(s, i + 1, <<>>)
         ELSE SplitFrom(s, i + 1, Append(cur, s[i]))

split(s) == SplitFrom(s, 1, <<>>)

\* f.read().splitlines(): the lines between line breaks; a final line break
\* opens no further line.
RECURSIVE SplitLinesFrom(_, _, _)
SplitLinesFrom(s, i, cur) ==
    IF i > Len(s)
    THEN IF cur = <<>> THEN <<>> ELSE <<cur>>
    ELSE IF s[i] = Newline
         THEN <<cur>> \o SplitLinesFrom(s, i + 1, <<>>)
         ELSE SplitLinesFrom(s, i + 1, Append(cur, s[i]))

splitlines(s) == SplitLinesFrom(s, 1, <<>>)

\* " ".join(words)
RECURSIVE join(_)
join(words) ==
    IF words = <<>> THEN <<>>
    ELSE IF Len(words) = 1 THEN words[1]
    ELSE words[1] \o <<Space>> \o join(Tail(words))

(***************************************************************************)
(* DatasetReader                                                           *)
(***************************************************************************)
\* DatasetReader.__init__: text_data is the list of lines of the file.
DatasetReader(content) == splitlines(content)

\* DatasetReader.iterate_word: every word of every sentence, in order.
RECURSIVE iterate_word(_)
iterate_word(lines) ==
    IF lines = <<>> THEN <<>>
    ELSE split(Head(lines)) \o iterate_word(Tail(lines))

(***************************************************************************)
(* dict, Counter and list helpers                                          *)
(***************************************************************************)
EmptyDict == [k \in {} |-> <<>>]

\* d[key] = value
DictSet(d, key, value) ==
    [k \in DOMAIN d \cup {key} |-> IF k = key THEN value ELSE d[k]]

\* self.vocab[word] += 1: a new word is inserted last with count 1.
Increment(vocab, word) ==
    IF \E k \in 1..Len(vocab) : vocab[k].word = word
    THEN [k \in 1..Len(vocab) |->
            IF vocab[k].word = word
            THEN [vocab[k] EXCEPT !.count = @ + 1]
            ELSE vocab[k]]
    ELSE Append(vocab, [word |-> word, count |-> 1])

\* for word in dataset_reader.iterate_word(): self.vocab[word] += 1
RECURSIVE CountWords(_, _)
CountWords(vocab, words) ==
    IF words = <<>> THEN vocab
    ELSE CountWords(Increment(vocab, Head(words)), Tail(words))

\* One step of a stable descending sort: the item goes behind every item
\* whose count is at least its own.
InsertByCount(sorted, item) ==
    LET k == Cardinality({j \in 1..Len(sorted) : sorted[j].count >= item.count})
    IN  SubSeq(sorted, 1, k) \o <<item>> \o SubSeq(sorted, k + 1, Len(sorted))

\* sorted(items, key=count, reverse=True): equal counts keep their order.
RECURSIVE SortedByCount(_)
SortedByCount(items) ==
    IF items = <<>> THEN <<>>
    ELSE InsertByCount(SortedByCount(SubSeq(items, 1, Len(items) - 1)),
                       items[Len(items)])

Min(a, b) == IF a <= b THEN a ELSE b

\* most_common without its cap: every counted word is returned.
most_common_uncapped(vocab, n) == SortedByCount(vocab)

\* most_common that cuts the Counter at n items before it sorts them.
most_common_cut_then_sort(vocab, n) ==
    SortedByCount(SubSeq(vocab, 1, Min(n, Len(vocab))))

\* Counter.most_common(n) is heapq.nlargest(n, items, key=count), that is
\* sorted(items, key=count, reverse=True)[:n].
most_common(vocab, n) ==
    SubSeq(SortedByCount(vocab), 1, Min(n, Len(vocab)))

Permutations(n) ==
    {p \in [1..n -> 1..n] : \A j, k \in 1..n : p[j] = p[k] => j = k}

\* A draw with replacement in place of the shuffle: every word gets the
\* code drawn first.
shuffle_with_repeats(list, perm) == [k \in 1..Len(list) |-> list[perm[1]]]

\* random.shuffle(codeWords) with the module-level generator, which nothing
\* seeds: any permutation of the list can come out.  perm is the outcome.
shuffle(list, perm) == [k \in 1..Len(list) |-> list[perm[k]]]

(***************************************************************************)
(* RandomCode                                                              *)
(***************************************************************************)
\* RandomCode.__init__, before super().__init__: the empty instance.
NewRandomCode ==
    [vocab            |-> <<>>,
     vocab_words      |-> <<>>,
     vocab_counts     |-> <<>>,
     map_word_to_code |-> EmptyDict,
     map_code_to_word |-> EmptyDict]

\* The loop of _init_from_dataset_reader that fills the two dicts.
RECURSIVE AssignCodes(_, _, _)
AssignCodes(self, codeWords, counter) ==
    IF counter > Len(self.vocab_words) THEN self
    ELSE LET word == self.vocab_words[counter]
         IN  AssignCodes(
                 [self EXCEPT
                    !.map_word_to_code = DictSet(@, word, codeWords[counter]),
                    !.map_code_to_word = DictSet(@, codeWords[counter], word)],
                 codeWords, counter + 1)

\* RandomCode._init_from_dataset_reader.  zip(*[]) yields nothing, so the
\* unpacking into two names raises ValueError when no word was counted.
init_from_dataset_reader(self, dataset_reader, perm) ==
    LET counted == [self EXCEPT
                      !.vocab = CountWords(@, iterate_word(dataset_reader.text_data))]
        pair_of_words_and_counts == most_common(counted.vocab, MAX_VOCAB_SIZE)
    IN  IF pair_of_words_and_counts = <<>>
        THEN [err |-> "ValueError", self |-> counted]
        ELSE LET n == Len(pair_of_words_and_counts)
                 zipped == [counted EXCEPT
                     !.vocab_words = [k \in 1..n |-> pair_of_words_and_counts[k].word],
                     !.vocab_counts = [k \in 1..n |-> pair_of_words_and_counts[k].count]]
                 codeWords == shuffle(zipped.vocab_words, perm)
             IN  [err |-> None, self |-> AssignCodes(zipped, codeWords, 1)]

\* RandomCode._save_to_pickle_file: the file system after pickle.dump.
save_to_pickle_file(self, save_pickle_file, fs) ==
    DictSet(fs, save_pickle_file,
            [vocab            |-> self.vocab,
             vocab_words      |-> self.vocab_words,
             vocab_counts     |-> self.vocab_counts,
             map_word_to_code |-> self.map_word_to_code,
             map_code_to_word |-> self.map_code_to_word])

\* _init_from_pickle_file that forgets to restore map_code_to_word.
init_from_pickle_file_no_codes(self, save_pickle_file, fs) ==
    IF save_pickle_file \notin DOMAIN fs
    THEN [err |-> "FileNotFoundError", self |-> self]
    ELSE LET load_dict == fs[save_pickle_file]
         IN  [err  |-> None,
              self |-> [self EXCEPT
                          !.vocab = load_dict.vocab,
                          !.vocab_words = load_dict.vocab_words,
                          !.vocab_counts = load_dict.vocab_counts,
                          !.map_word_to_code = load_dict.map_word_to_code]]

\* RandomCode._init_from_pickle_file: open() fails on a missing file.
init_from_pickle_file(self, save_pickle_file, fs) ==
    IF save_pickle_file \notin DOMAIN fs
    THEN [err |-> "FileNotFoundError", self |-> self]
    ELSE LET load_dict == fs[save_pickle_file]
         IN  [err  |-> None,
              self |-> [self EXCEPT
                          !.vocab = load_dict.vocab,
                          !.vocab_words = load_dict.vocab_words,
                          !.vocab_counts = load_dict.vocab_counts,
                          !.map_word_to_code = load_dict.map_word_to_code,
                          !.map_code_to_word = load_dict.map_code_to_word]]

\* The dataset_reader argument: None, or a DatasetReader object.
NoReader == [is_none |-> TRUE]
Reader(lines) == [is_none |-> FALSE, text_data |-> lines]

\* CryptAlgo.__init__ whose load branch asserts only that a path is given.
CryptAlgo_init_lax(self, use_dataset_reader, dataset_reader, save_pickle_file, fs, perm) ==
    IF use_dataset_reader
    THEN IF dataset_reader.is_none
         THEN [err |-> "AssertionError", self |-> self, files |-> fs]
         ELSE LET r == init_from_dataset_reader(self, dataset_reader, perm)
              IN  IF r.err # None
                  THEN [err |-> r.err, self |-> r.self, files |-> fs]
                  ELSE IF save_pickle_file # None
                       THEN [err |-> None, self |-> r.self,
                             files |-> save_to_pickle_file(r.self, save_pickle_file, fs)]
                       ELSE [err |-> None, self |-> r.self, files |-> fs]
    ELSE IF save_pickle_file = None
         THEN [err |-> "AssertionError", self |-> self, files |-> fs]
         ELSE LET r == init_from_pickle_file(self, save_pickle_file, fs)
              IN  [err |-> r.err, self |-> r.self, files |-> fs]

\* CryptAlgo.__init__, run on the empty instance by RandomCode.__init__.
\* The result is the error raised (None when the constructor returns), the
\* instance and the file system.
CryptAlgo_init(self, use_dataset_reader, dataset_reader, save_pickle_file, fs, perm) ==
    IF use_dataset_reader
    THEN IF dataset_reader.is_none
         THEN [err |-> "AssertionError", self |-> self, files |-> fs]
         ELSE LET r == init_from_dataset_reader(self, dataset_reader, perm)
              IN  IF r.err # None
                  THEN [err |-> r.err, self |-> r.self, files |-> fs]
                  ELSE IF save_pickle_file # None
                       THEN [err |-> None, self |-> r.self,
                             files |-> save_to_pickle_file(r.self, save_pickle_file, fs)]
                       ELSE [err |-> None, self |-> r.self, files |-> fs]
    ELSE IF ~(dataset_reader.is_none /\ save_pickle_file # None)
         THEN [err |-> "AssertionError", self |-> self, files |-> fs]
         ELSE LET r == init_from_pickle_file(self, save_pickle_file, fs)
              IN  [err |-> r.err, self |-> r.self, files |-> fs]

\* The encrypt loop that passes a missing word through unchanged.
RECURSIVE encrypted_words_list_passthrough(_, _)
encrypted_words_list_passthrough(self, words) ==
    IF words = <<>> THEN <<>>
    ELSE IF Head(words) \notin DOMAIN self.map_word_to_code
         THEN <<Head(words)>> \o encrypted_words_list_passthrough(self, Tail(words))
         ELSE <<self.map_word_to_code[Head(words)]>>
                  \o encrypted_words_list_passthrough(self, Tail(words))

\* RandomCode.encrypt, the loop: words missing from the dict are skipped.
RECURSIVE encrypted_words_list(_, _)
encrypted_words_list(self, words) ==
    IF words = <<>> THEN <<>>
    ELSE IF Head(words) \notin DOMAIN self.map_word_to_code
         THEN encrypted_words_list(self, Tail(words))
         ELSE <<self.map_word_to_code[Head(words)]>>
                  \o encrypted_words_list(self, Tail(words))

\* RandomCode.encrypt
encrypt(self, sentence) ==
    [err |-> None, returned |-> TRUE,
     out |-> join(encrypted_words_list(self, split(sentence)))]

\* The decrypt loop that skips an unknown code the way encrypt skips a word.
RECURSIVE decrypted_words_list_skipping(_, _, _)
decrypted_words_list_skipping(self, codes, acc) ==
    IF codes = <<>> THEN [err |-> None, list |-> acc]
    ELSE IF Head(codes) \notin DOMAIN self.map_code_to_word
         THEN decrypted_words_list_skipping(self, Tail(codes), acc)
         ELSE decrypted_words_list_skipping(self, Tail(codes),
                  Append(acc, self.map_code_to_word[Head(codes)]))

\* The decrypt loop that inserts each word at the front of the list.
RECURSIVE decrypted_words_list_reversed(_, _, _)
decrypted_words_list_reversed(self, codes, acc) ==
    IF codes = <<>> THEN [err |-> None, list |-> acc]
    ELSE IF Head(codes) \notin DOMAIN self.map_code_to_word
         THEN [err |-> "AssertionError", list |-> acc]
         ELSE decrypted_words_list_reversed(self, Tail(codes),
                  <<self.map_code_to_word[Head(codes)]>> \o acc)

\* RandomCode.decrypt, the loop: the words decrypted so far, or the failed
\* assertion on the first code that is no key of the dict.
RECURSIVE decrypted_words_list(_, _, _)
decrypted_words_list(self, codes, acc) ==
    IF codes = <<>> THEN [err |-> None, list |-> acc]
    ELSE IF Head(codes) \notin DOMAIN self.map_code_to_word
         THEN [err |-> "AssertionError", list |-> acc]
         ELSE decrypted_words_list(self, Tail(codes),
                                   Append(acc, self.map_code_to_word[Head(codes)]))

\* RandomCode.decrypt
decrypt(self, sentence) ==
    LET r == decrypted_words_list(self, split(sentence), <<>>)
    IN  IF r.err # None
        THEN [err |-> r.err, returned |-> FALSE, out |-> <<>>]
        ELSE [err |-> None, returned |-> TRUE, out |-> join(r.list)]

(***************************************************************************)
(* The state machine.                                                      *)
(*   text_data  the lines of the dataset file, as DatasetReader holds them *)
(*   inst       the RandomCode objects the driver holds, by name           *)
(*   files      the pickle files on disk: path -> pickled dict             *)
(*   last       the last call made, with its arguments and its outcome     *)
(* A name of inst is bound by the first constructor call that returns; a   *)
(* constructor call that raises binds nothing.                             *)
(***************************************************************************)
NoCall ==
    [op |-> "none", id |-> 0, use_dataset_reader |-> FALSE, reader_given |-> FALSE,
     save_pickle_file |-> None, sentence |-> <<>>, encrypted |-> <<>>,
     err |-> None, returned |-> FALSE, out |-> <<>>]

Unbound == [built |-> FALSE, use_dataset_reader |-> FALSE, self |-> NewRandomCode]

\* The datasets a file of at most n characters can hold.
Datasets(n) == {DatasetReader(content) : content \in SeqsUpTo(FileChars, n)}

InitWith(n) ==
    /\ text_data \in Datasets(n)
    /\ inst = [i \in Instances |-> Unbound]
    /\ files = EmptyDict
    /\ last = NoCall

\* The length of the list random.shuffle is called on, 0 when the call is
\* not reached.
ShuffleLen(use_dataset_reader, dataset_reader) ==
    IF use_dataset_reader /\ ~dataset_reader.is_none
    THEN Len(most_common(CountWords(<<>>, iterate_word(dataset_reader.text_data)),
                         MAX_VOCAB_SIZE))
    ELSE 0

\* RandomCode(use_dataset_reader, dataset_reader, save_pickle_file)
Construct(i, use_dataset_reader, dataset_reader, save_pickle_file) ==
    /\ ~inst[i].built
    /\ \E perm \in Permutations(ShuffleLen(use_dataset_reader, dataset_reader)) :
         \E r \in {CryptAlgo_init(NewRandomCode, use_dataset_reader, dataset_reader,
                                 save_pickle_file, files, perm)} :
             /\ inst' = IF r.err = None
                        THEN [inst EXCEPT ![i] =
                                [built |-> TRUE,
                                 use_dataset_reader |-> use_dataset_reader,
                                 self |-> r.self]]
                        ELSE inst
             /\ files' = r.files
             /\ last' = [NoCall EXCEPT
                           !.op = "construct", !.id = i,
                           !.use_dataset_reader = use_dataset_reader,
                           !.reader_given = ~dataset_reader.is_none,
                           !.save_pickle_file = save_pickle_file,
                           !.err = r.err, !.returned = (r.err = None)]
    /\ UNCHANGED text_data

\* random_code._save_to_pickle_file(save_pickle_file)
Save(i, save_pickle_file) ==
    /\ inst[i].built
    /\ files' = save_to_pickle_file(inst[i].self, save_pickle_file, files)
    /\ last' = [NoCall EXCEPT !.op = "save", !.id = i,
                              !.save_pickle_file = save_pickle_file,
                              !.returned = TRUE]
    /\ UNCHANGED <<text_data, inst>>

\* The calls whose result is a sentence.  The driver prints such a result
\* before it passes another sentence to encrypt or decrypt.
TextOps == {"encrypt", "decrypt", "roundtrip"}

\* encrypted = random_code.encrypt(sentence), for any sentence
Encrypt(i, sentences) ==
    /\ inst[i].built
    /\ last.op \notin TextOps
    /\ \E sentence \in sentences :
         \E r \in {encrypt(inst[i].self, sentence)} :
           last' = [NoCall EXCEPT !.op = "encrypt", !.id = i, !.sentence = sentence,
                                  !.err = r.err, !.returned = r.returned,
                                  !.out = r.out]
    /\ UNCHANGED <<text_data, inst, files>>

\* random_code.decrypt(sentence), for any sentence
Decrypt(i, sentences) ==
    /\ inst[i].built
    /\ last.op \notin TextOps
    /\ \E sentence \in sentences :
         \E r \in {decrypt(inst[i].self, sentence)} :
           last' = [NoCall EXCEPT !.op = "decrypt", !.id = i, !.sentence = sentence,
                                  !.err = r.err, !.returned = r.returned,
                                  !.out = r.out]
    /\ UNCHANGED <<text_data, inst, files>>

\* decrypted = random_code.decrypt(encrypted), where encrypted is what the
\* same object's encrypt has just returned for sentence
DecryptEncrypted(i) ==
    /\ inst[i].built
    /\ last.op = "encrypt" /\ last.id = i
    /\ \E r \in {decrypt(inst[i].self, last.out)} :
           last' = [NoCall EXCEPT !.op = "roundtrip", !.id = i,
                                  !.sentence = last.sentence,
                                  !.encrypted = last.out,
                                  !.err = r.err, !.returned = r.returned,
                                  !.out = r.out]
    /\ UNCHANGED <<text_data, inst, files>>

\* print(...): the driver is done with the result it holds.
PrintResult ==
    /\ last.op \in TextOps
    /\ last' = NoCall
    /\ UNCHANGED <<text_data, inst, files>>

ReaderArgs == {NoReader, Reader(text_data)}
PathArgs == {None} \cup Paths

ConstructAny(ids) ==
    \E i \in ids, use_dataset_reader \in BOOLEAN,
       dataset_reader \in ReaderArgs, save_pickle_file \in PathArgs :
        Construct(i, use_dataset_reader, dataset_reader, save_pickle_file)

\* Two objects, construction and saving: the driver of the demo without its
\* sentences.
Init == InitWith(MaxSmallFileLen)

Next ==
    \/ ConstructAny(Instances)
    \/ \E i \in Instances, p \in Paths : Save(i, p)

Spec == Init /\ [][Next]_vars

\* One object and every call on it.
InitCrypt == InitWith(MaxSmallFileLen)

NextCrypt ==
    \/ ConstructAny({1})
    \/ \E p \in Paths : Save(1, p)
    \/ Encrypt(1, Texts)
    \/ Decrypt(1, Texts)
    \/ DecryptEncrypted(1)
    \/ PrintResult

SpecCrypt == InitCrypt /\ [][NextCrypt]_vars

\* One object built from the larger datasets.
InitVocab == InitWith(MaxFileLen)

NextVocab == ConstructAny({1})

SpecVocab == InitVocab /\ [][NextVocab]_vars

\* The datasets of one line of at most n of the given words, single-spaced;
\* no word gives the empty file.
WordDatasets(words, n) ==
    {DatasetReader(join(ws)) : ws \in SeqsUpTo(words, n)}

InitWords(words, n) ==
    /\ text_data \in WordDatasets(words, n)
    /\ inst = [i \in Instances |-> Unbound]
    /\ files = EmptyDict
    /\ last = NoCall

\* One object built from a dataset and not saved, and sentences of several
\* words.
InitText == InitWords(ShortWords, MaxCorpusWords)

NextText ==
    \/ Construct(1, TRUE, Reader(text_data), None)
    \/ Encrypt(1, Sentences)
    \/ Decrypt(1, Sentences)
    \/ PrintResult

SpecText == InitText /\ [][NextText]_vars

\* One object built from datasets whose words repeat.
InitRank == InitWords(RankWords, MaxRankWords)

NextRank == ConstructAny({1})

SpecRank == InitRank /\ [][NextRank]_vars

(***************************************************************************)
(* The corpus, described from the token stream alone.                      *)
(***************************************************************************)
Range(seq) == {seq[k] : k \in 1..Len(seq)}

\* The token stream of the dataset.
Tokens == iterate_word(text_data)

CountOf(tokens, w) == Cardinality({k \in 1..Len(tokens) : tokens[k] = w})
FirstIndex(tokens, w) ==
    CHOOSE k \in 1..Len(tokens) :
        tokens[k] = w /\ \A j \in 1..(k - 1) : tokens[j] # w

\* u ranks before w: a higher count, or the same count and met earlier.
RanksBefore(tokens, u, w) ==
    \/ CountOf(tokens, u) > CountOf(tokens, w)
    \/ /\ CountOf(tokens, u) = CountOf(tokens, w)
       /\ FirstIndex(tokens, u) < FirstIndex(tokens, w)

BuiltFromCorpus(i) == inst[i].built /\ inst[i].use_dataset_reader

(***************************************************************************)
(* Vocabulary claims, under SpecVocab.                                     *)
(***************************************************************************)
\* C8: after building from a corpus, vocab_words and vocab_counts both have
\* min(number of distinct corpus tokens, MAX_VOCAB_SIZE) entries.
C8_VocabSize ==
    \A i \in Instances :
        BuiltFromCorpus(i) =>
            /\ Len(inst[i].self.vocab_words)
                   = Min(Cardinality(Range(Tokens)), MAX_VOCAB_SIZE)
            /\ Len(inst[i].self.vocab_counts) = Len(inst[i].self.vocab_words)

\* An instance built from a corpus with more distinct tokens than the cap.
C8_Witness ==
    /\ BuiltFromCorpus(1)
    /\ Cardinality(Range(Tokens)) > MAX_VOCAB_SIZE
    /\ Len(inst[1].self.vocab_words) = MAX_VOCAB_SIZE

\* C9: for every corpus that yields fewer tokens than MAX_VOCAB_SIZE, the
\* empty corpus included, construction from the corpus completes without
\* error and the Vocabulary is exactly the set of distinct corpus tokens.
C9_SmallCorpusBuilds ==
    (/\ last.op = "construct"
     /\ last.use_dataset_reader
     /\ last.reader_given
     /\ Len(Tokens) < MAX_VOCAB_SIZE)
        => /\ last.err = None
           /\ inst[last.id].built
           /\ Range(inst[last.id].self.vocab_words) = Range(Tokens)
           /\ Len(inst[last.id].self.vocab_words) = Cardinality(Range(Tokens))

\* C10: the Vocabulary is the MAX_VOCAB_SIZE highest-count tokens in
\* non-increasing count order, equal counts in order of first occurrence;
\* a token left out ranks after every token kept; vocab_counts[k] is the
\* corpus count of vocab_words[k].
C10_FrequencyOrder ==
    \A i \in Instances :
        BuiltFromCorpus(i) =>
            \E tokens \in {Tokens} :
                LET words == inst[i].self.vocab_words
                    counts == inst[i].self.vocab_counts
                IN  /\ Len(words) = Min(Cardinality(Range(tokens)), MAX_VOCAB_SIZE)
                    /\ Len(counts) = Len(words)
                    /\ \A k \in 1..Len(words) :
                           /\ words[k] \in Range(tokens)
                           /\ counts[k] = CountOf(tokens, words[k])
                    /\ \A j, k \in 1..Len(words) :
                           j < k => RanksBefore(tokens, words[j], words[k])
                    /\ \A w \in Range(tokens) \ Range(words) :
                           \A k \in 1..Len(words) : RanksBefore(tokens, words[k], w)

\* The cap cuts by count and a tie straddles the cut-off: a token left out
\* was met before a token kept whose count is higher, and a token left out
\* has the count of the last token kept.
C10_Witness ==
    /\ BuiltFromCorpus(1)
    /\ LET words == inst[1].self.vocab_words
       IN  /\ Len(words) = MAX_VOCAB_SIZE
           /\ \E w \in Range(Tokens) \ Range(words) :
                  /\ CountOf(Tokens, w) = CountOf(Tokens, words[Len(words)])
                  /\ \E k \in 1..Len(words) :
                         /\ FirstIndex(Tokens, w) < FirstIndex(Tokens, words[k])
                         /\ CountOf(Tokens, w) < CountOf(Tokens, words[k])

(***************************************************************************)
(* Sentences, described character by character.                            *)
(***************************************************************************)
\* Position k of s survives whitespace normalisation: a non-blank, or the
\* first blank of a run that has a non-blank on both sides.
Kept(s, k) ==
    \/ ~IsSpace(s[k])
    \/ /\ k > 1 /\ ~IsSpace(s[k - 1])
       /\ \E j \in (k + 1)..Len(s) : ~IsSpace(s[j])

\* s with runs of whitespace collapsed to one space and its ends stripped.
RECURSIVE NormalizedFrom(_, _)
NormalizedFrom(s, k) ==
    IF k > Len(s) THEN <<>>
    ELSE IF Kept(s, k)
         THEN <<IF IsSpace(s[k]) THEN Space ELSE s[k]>> \o NormalizedFrom(s, k + 1)
         ELSE NormalizedFrom(s, k + 1)

Normalized(s) == NormalizedFrom(s, 1)

\* words one after the other, a single space before each but the first
RECURSIVE SingleSpaced(_)
SingleSpaced(words) ==
    IF words = <<>> THEN <<>>
    ELSE LET n == Len(words)
         IN  IF n = 1 THEN words[1]
             ELSE SingleSpaced(SubSeq(words, 1, n - 1)) \o <<Space>> \o words[n]

Vocabulary(i) == Range(inst[i].self.vocab_words)

(***************************************************************************)
(* Encrypt and decrypt claims, under SpecCrypt.                            *)
(***************************************************************************)
\* C1: for an instance built from a corpus and a text whose tokens are all
\* in the Vocabulary, decrypt(encrypt(text)) returns the text with its
\* whitespace runs collapsed to single spaces and its ends stripped.
C1_RoundTrip ==
    (/\ last.op = "roundtrip"
     /\ BuiltFromCorpus(last.id)
     /\ Range(split(last.sentence)) \subseteq Vocabulary(last.id))
        => /\ last.returned
           /\ last.err = None
           /\ last.out = Normalized(last.sentence)

\* A round trip of two words whose codes differ from them, through a text
\* whose whitespace is not normal.
C1_Witness ==
    /\ last.op = "roundtrip"
    /\ BuiltFromCorpus(last.id)
    /\ Range(split(last.sentence)) \subseteq Vocabulary(last.id)
    /\ Len(split(last.sentence)) >= 2
    /\ split(last.sentence)[1] # split(last.sentence)[2]
    /\ last.encrypted # last.out
    /\ last.out # last.sentence

UnknownCodes(i, sentence) ==
    {k \in 1..Len(split(sentence)) :
        split(sentence)[k] \notin DOMAIN inst[i].self.map_code_to_word}

\* C5: decrypt of a text with a token that is no key of map_code_to_word
\* fails with the assertion error and returns nothing, wherever the token
\* stands.
C5_UnknownCode ==
    (/\ last.op = "decrypt"
     /\ UnknownCodes(last.id, last.sentence) # {})
        => /\ last.err = "AssertionError"
           /\ ~last.returned
           /\ last.out = <<>>

\* The unknown token stands in the middle: two known codes before it and a
\* known code behind it.
C5_Witness ==
    /\ last.op = "decrypt"
    /\ Len(split(last.sentence)) = 4
    /\ UnknownCodes(last.id, last.sentence) = {3}
    /\ last.err = "AssertionError"
    /\ ~last.returned

InVocabularyWords(i, sentence) ==
    SelectSeq(split(sentence), LAMBDA w : w \in DOMAIN inst[i].self.map_word_to_code)

\* C6: encrypt returns the codes of the in-vocabulary words of the
\* sentence, in order and one per occurrence, joined by single spaces, and
\* nothing for the other words: the output has as many tokens as the
\* sentence has in-vocabulary word occurrences.
C6_EncryptDropsUnknown ==
    last.op = "encrypt" =>
        LET known == InVocabularyWords(last.id, last.sentence)
            codes == [k \in 1..Len(known) |->
                        inst[last.id].self.map_word_to_code[known[k]]]
        IN  /\ last.returned
            /\ last.err = None
            /\ last.out = SingleSpaced(codes)
            /\ Len(split(last.out)) = Len(known)

\* A sentence that mixes words of the Vocabulary with another word: two
\* different words of the Vocabulary, whose codes are not themselves, stand
\* on either side of a word that is not in it.
C6_Witness ==
    /\ last.op = "encrypt"
    /\ BuiltFromCorpus(last.id)
    /\ LET words == split(last.sentence)
           known == InVocabularyWords(last.id, last.sentence)
       IN  /\ Len(words) = 3
           /\ Len(known) = 2
           /\ words[2] \notin Vocabulary(last.id)
           /\ known[1] # known[2]
           /\ inst[last.id].self.map_word_to_code[known[1]] # known[1]
           /\ Len(split(last.out)) = 2

\* C7: in an instance built from a corpus, whatever encrypt, decrypt and
\* save calls follow, the two dicts are exact inverses, no two words share a
\* code, and both have the size of the Vocabulary.
C7_InverseMappings ==
    \A i \in Instances :
        BuiltFromCorpus(i) =>
            LET w2c == inst[i].self.map_word_to_code
                c2w == inst[i].self.map_code_to_word
            IN  /\ \A w \in DOMAIN w2c :
                       w2c[w] \in DOMAIN c2w /\ c2w[w2c[w]] = w
                /\ \A c \in DOMAIN c2w :
                       c2w[c] \in DOMAIN w2c /\ w2c[c2w[c]] = c
                /\ \A u, w \in DOMAIN w2c : w2c[u] = w2c[w] => u = w
                /\ Cardinality(DOMAIN w2c) = Cardinality(DOMAIN c2w)
                /\ Cardinality(DOMAIN w2c) = Len(inst[i].self.vocab_words)
                /\ DOMAIN w2c = Vocabulary(i)

\* A two-word instance after a save and a call on a sentence.
C7_Witness ==
    /\ BuiltFromCorpus(1)
    /\ Len(inst[1].self.vocab_words) >= 2
    /\ files # EmptyDict
    /\ last.op \in TextOps

(***************************************************************************)
(* Construction and persistence claims, under Spec.                        *)
(***************************************************************************)
SameOutputs(self1, self2) ==
    \A sentence \in Texts :
        /\ encrypt(self1, sentence) = encrypt(self2, sentence)
        /\ decrypt(self1, sentence) = decrypt(self2, sentence)

\* C2: an instance loaded from the pickle file that an instance built from
\* the corpus saved has the same five fields, and encrypt and decrypt give
\* the same outcome on every sentence.
C2_SaveLoad ==
    \A i, j \in Instances :
        (/\ BuiltFromCorpus(i)
         /\ inst[j].built /\ ~inst[j].use_dataset_reader)
            => /\ inst[j].self = inst[i].self
               /\ SameOutputs(inst[i].self, inst[j].self)

\* The second object was loaded from the file the first one saved.
C2_Witness ==
    /\ BuiltFromCorpus(1)
    /\ inst[2].built /\ ~inst[2].use_dataset_reader
    /\ Len(inst[2].self.vocab_words) >= 2
    /\ last.op = "construct" /\ last.id = 2 /\ last.err = None

\* C3 as stated: supplying both a dataset_reader and a save_pickle_file, or
\* neither, is rejected with a configuration error.
C3_ExactlyOneSupplied ==
    (/\ last.op = "construct"
     /\ last.reader_given = (last.save_pickle_file # None))
        => last.err = "AssertionError"

InvalidConfiguration(call) ==
    IF call.use_dataset_reader
    THEN ~call.reader_given
    ELSE call.reader_given \/ call.save_pickle_file = None

\* C3 amended: a constructor call fails its assertion exactly when
\* use_dataset_reader is true and no dataset_reader is given, or
\* use_dataset_reader is false and a dataset_reader is given or no
\* save_pickle_file is given; then no instance is bound and no file is
\* written.  With use_dataset_reader true, a dataset_reader and a
\* save_pickle_file together pass the assertion, and when the build
\* succeeds the instance is saved to that path.
C3_ModeContract ==
    [][last'.op = "construct" =>
          /\ InvalidConfiguration(last') = (last'.err = "AssertionError")
          /\ last'.err = "AssertionError" =>
                 ~last'.returned /\ inst' = inst /\ files' = files
          /\ (/\ last'.use_dataset_reader /\ last'.reader_given
              /\ last'.save_pickle_file # None /\ last'.err = None)
                 => /\ inst'[last'.id].built
                    /\ last'.save_pickle_file \in DOMAIN files'
                    /\ files'[last'.save_pickle_file] = inst'[last'.id].self]_vars

\* Both arguments with use_dataset_reader false are rejected while a pickle
\* file is on disk and the other object is bound.
C3_Witness ==
    /\ last.op = "construct"
    /\ ~last.use_dataset_reader /\ last.reader_given
    /\ last.save_pickle_file # None
    /\ last.err = "AssertionError"
    /\ files # EmptyDict
    /\ ~inst[last.id].built

\* C4: two instances built from corpora with the same frequency-ordered
\* Vocabulary end with the same map_word_to_code and map_code_to_word.
C4_Reproducible ==
    \A i, j \in Instances :
        (/\ BuiltFromCorpus(i) /\ BuiltFromCorpus(j)
         /\ inst[i].self.vocab_words = inst[j].self.vocab_words)
            => /\ inst[i].self.map_word_to_code = inst[j].self.map_word_to_code
               /\ inst[i].self.map_code_to_word = inst[j].self.map_code_to_word

====
